---- MODULE Spec2Model ----
(***************************************************************************)
(* Backward-patch history of pxt.workspace: diffScriptText, applyDiff and  *)
(* collapseHistory (src/unnamed/part_000).                                 *)
(*                                                                         *)
(* Conventions.                                                            *)
(*  - A filename is the sequence of its characters, so that endsWith and   *)
(*    === are computed on the name itself.                                 *)
(*  - A ScriptText is a function from the filenames it holds to contents.  *)
(*  - A JavaScript value that may be undefined is None (<<>>) or <<v>>.    *)
(*  - Sequences are 1-based: JavaScript index j is index j + 1 here, so    *)
(*    "lastTimeIndex" is falsy (0) exactly when it is 1 here.              *)
(*  - Object.keys order is abstracted to the fixed enumeration KeyOrder.   *)
(***************************************************************************)
EXTENDS Integers, Sequences, FiniteSets, TLC

VARIABLES
    \* inputs of collapseHistory
    history, text, options,
    \* locals of collapseHistory
    newHistory, current, lastVersion, lastTime, lastTimeIndex, lastTimeText,
    minTime, maxTime, i, pc,
    \* for each record of newHistory, the input indices it stands for
    groups,
    \* diffScriptText / applyDiff called on their own
    oldVersion, newVersion, entry, result, patchOnMissing, dpc,
    \* the snapshot objects of a run of collapseHistory, when they are tracked
    mem,
    \* the calls of collapseHistory the caller has completed: input and output
    calls

collapseVars == <<history, text, options, newHistory, current, lastVersion,
                  lastTime, lastTimeIndex, lastTimeText, minTime, maxTime, i,
                  pc, groups>>
pureVars == <<oldVersion, newVersion, entry, result, patchOnMissing, dpc, mem, calls>>
vars == <<collapseVars, pureVars>>

----------------------------------------------------------------------------
(* Bounds of the model *)

MaxLen == 3
MaxTs == 2

----------------------------------------------------------------------------
(* Values *)

None == <<>>
\* no snapshot object is tracked
NoMem == <<>>
Some(x) == <<x>>

FileA == <<"a", ".", "t", "s">>
PxtJson == <<"p", "x", "t", ".", "j", "s", "o", "n">>
FileTsx == <<"a", ".", "t", "s", "x">>

KeyOrder == <<FileA, PxtJson, FileTsx>>
Files == {KeyOrder[k] : k \in 1..Len(KeyOrder)}

Contents == {0, 1, 2}
Modulus == Cardinality(Contents)
Patches == Contents

TargetVersion == "target"

\* EndsWith with a fault: the suffix may stand anywhere in the name
EndsWithAnywhere(s, suffix) ==
    \E k \in 1..(Len(s) - Len(suffix) + 1) :
        SubSeq(s, k, k + Len(suffix) - 1) = suffix

\* String.prototype.endsWith
EndsWith(s, suffix) ==
    /\ Len(s) >= Len(suffix)
    /\ SubSeq(s, Len(s) - Len(suffix) + 1, Len(s)) = suffix

IsTracked(file) ==
    \/ EndsWith(file, <<".", "t", "s">>)
    \/ EndsWith(file, <<".", "j", "r", "e", "s">>)
    \/ EndsWith(file, <<".", "p", "y">>)
    \/ EndsWith(file, <<".", "b", "l", "o", "c", "k", "s">>)
    \/ file = PxtJson

\* The injected pair: a backward patch is the difference of the contents.
diff(a, b) == (b - a) % Modulus
patch(p, t) == (t + p) % Modulus

ScriptTexts(files) == UNION {[d -> Contents] : d \in SUBSET files}

Keys(v) == SelectSeq(KeyOrder, LAMBDA f : f \in DOMAIN v)

Tracked(v) == [f \in {g \in DOMAIN v : IsTracked(g)} |-> v[f]]

----------------------------------------------------------------------------
(* diffScriptText *)

Added(file, value) == [type |-> "added", filename |-> file, value |-> value]
Removed(file, value) == [type |-> "removed", filename |-> file, value |-> value]
Edited(file, p) == [type |-> "edited", filename |-> file, patch |-> p]

\* diffChanges with a fault: the patch of an edited file leads from the old
\* content to the new one
diffChangesForward(oldV, newV) ==
    LET gone == SelectSeq(Keys(oldV), LAMBDA f :
                    /\ IsTracked(f)
                    /\ (f \notin DOMAIN newV \/ oldV[f] # newV[f]))
        fresh == SelectSeq(Keys(newV), LAMBDA f :
                    IsTracked(f) /\ f \notin DOMAIN oldV)
    IN  [k \in 1..Len(gone) |->
            IF gone[k] \notin DOMAIN newV
            THEN Removed(gone[k], oldV[gone[k]])
            ELSE Edited(gone[k], diff(oldV[gone[k]], newV[gone[k]]))]
        \o [k \in 1..Len(fresh) |-> Added(fresh[k], newV[fresh[k]])]

\* diffChanges with a fault: the files of the new snapshot are not visited
diffChangesOldOnly(oldV, newV) ==
    LET gone == SelectSeq(Keys(oldV), LAMBDA f :
                    /\ IsTracked(f)
                    /\ (f \notin DOMAIN newV \/ oldV[f] # newV[f]))
    IN  [k \in 1..Len(gone) |->
            IF gone[k] \notin DOMAIN newV
            THEN Removed(gone[k], oldV[gone[k]])
            ELSE Edited(gone[k], diff(newV[gone[k]], oldV[gone[k]]))]

\* lines 198-228
diffChanges(oldV, newV) ==
    LET gone == SelectSeq(Keys(oldV), LAMBDA f :
                    /\ IsTracked(f)
                    /\ (f \notin DOMAIN newV \/ oldV[f] # newV[f]))
        fresh == SelectSeq(Keys(newV), LAMBDA f :
                    IsTracked(f) /\ f \notin DOMAIN oldV)
    IN  [k \in 1..Len(gone) |->
            IF gone[k] \notin DOMAIN newV
            THEN Removed(gone[k], oldV[gone[k]])
            ELSE Edited(gone[k], diff(newV[gone[k]], oldV[gone[k]]))]
        \o [k \in 1..Len(fresh) |-> Added(fresh[k], newV[fresh[k]])]

diffScriptText(oldV, newV, now) ==
    LET changes == diffChanges(oldV, newV)
    IN  IF Len(changes) = 0
        THEN None
        ELSE Some([timestamp |-> now, editorVersion |-> TargetVersion,
                   changes |-> changes])

----------------------------------------------------------------------------
(* applyDiff *)

Delete(v, file) == [f \in DOMAIN v \ {file} |-> v[f]]
Put(v, file, value) ==
    [f \in DOMAIN v \cup {file} |-> IF f = file THEN value ELSE v[f]]

\* An "edited" change whose file the snapshot does not hold: patch is called
\* with an undefined text.
EditsMissing(txt, e) ==
    \E k \in 1..Len(e.changes) :
        /\ e.changes[k].type = "edited"
        /\ e.changes[k].filename \notin DOMAIN txt

\* What the injected patch makes of an undefined text is its own affair: it
\* returns some content (patchOnMissing = <<c>>) or throws (None).
patchText(p, txt, file) ==
    IF file \in DOMAIN txt THEN patch(p, txt[file]) ELSE patchOnMissing[1]

applyDiffThrows(txt, e) == EditsMissing(txt, e) /\ patchOnMissing = None

applyChange(res, txt, change) ==
    IF change.type = "added"
    THEN Delete(res, change.filename)
    ELSE IF change.type = "removed"
    THEN Put(res, change.filename, change.value)
    ELSE Put(res, change.filename, patchText(change.patch, txt, change.filename))

RECURSIVE applyChanges(_, _, _, _)
applyChanges(res, txt, changes, k) ==
    IF k > Len(changes)
    THEN res
    ELSE applyChanges(applyChange(res, txt, changes[k]), txt, changes, k + 1)

applyDiff(txt, e) == applyChanges(txt, txt, e.changes, 1)

----------------------------------------------------------------------------
(* collapseHistory: one action per branch of the loop body *)

\* a reading of Date.now(), later than any record of the log
Clock == {MaxTs + 1}

\* unshift with a fault: the record is pushed at the end
unshiftAsPush(seq, e) == Append(seq, e)

unshift(seq, e) == <<e>> \o seq

\* Above with a fault: the upper edge of the window is one too high
AboveLate(e) == e.timestamp > maxTime[1] + 1

\* line 125
Above(e) == e.timestamp > maxTime[1]

\* Below with a fault: a record at minTime counts as below the window
BelowInclusive(e) == ~Above(e) /\ e.timestamp <= minTime[1]

\* line 130
Below(e) == ~Above(e) /\ e.timestamp < minTime[1]

InWindow(e) == ~Above(e) /\ ~Below(e)

\* ReadsLastOfEmpty with a fault: the last record is read whether or not
\* maxTime is given
ReadsLastAlways == Len(history) = 0

\* line 119 reads history[history.length - 1].timestamp
ReadsLastOfEmpty == options.maxTime = None /\ Len(history) = 0

GroupOpen == lastTimeIndex # None

\* groupDiff with a fault: the two snapshots are passed the other way round
groupDiffSwapped(now) == diffScriptText(lastTimeText[1], current, now)

\* diffScriptText(current, lastTimeText, diff), of which .changes is read
groupDiff(now) == diffScriptText(current, lastTimeText[1], now)

\* reading .changes of undefined is a TypeError
groupDiffThrows == \A now \in Clock : groupDiff(now) = None

\* mergedEntry with a fault: stamped with the oldest record of the group
mergedEntryOldest(now) ==
    [timestamp |-> history[i + 1].timestamp, editorVersion |-> history[i + 1].editorVersion,
     changes |-> groupDiff(now)[1].changes]

\* mergedEntry with a fault: stamped with the time and the version of the merge
mergedEntryNow(now) ==
    [timestamp |-> now, editorVersion |-> TargetVersion,
     changes |-> groupDiff(now)[1].changes]

\* lines 133-137, 159-163, 183-187
mergedEntry(now) ==
    [timestamp |-> lastTime[1], editorVersion |-> lastVersion,
     changes |-> groupDiff(now)[1].changes]

\* FarFromGroup with a fault: the comparison is inverted
FarFromGroupInverted(e) == lastTime[1] - e.timestamp < options.interval

\* FarFromGroup with a fault: a negative interval is taken as 0
FarFromGroupClamped(e) ==
    lastTime[1] - e.timestamp > (IF options.interval < 0 THEN 0 ELSE options.interval)

\* FarFromGroup with a fault: the distance is taken from the record visited
\* last instead of the record that opened the group
FarFromGroupPrev(e) == history[i + 1].timestamp - e.timestamp > options.interval

\* line 157
FarFromGroup(e) == lastTime[1] - e.timestamp > options.interval

\* SpansSeveral with a fault: a group of one record counts as several
SpansSeveralOffByOne(idx) == lastTimeIndex[1] - idx >= 1

\* the group test of the flush at the lower window edge and at an interval break
SpansSeveral(idx) == lastTimeIndex[1] - idx > 1

\* FinalSpansSeveral with a fault: index 0 counts as any other
FinalSpansSeveralAlways == TRUE

\* the group test of the flush after the loop: "if (lastTimeIndex)"
FinalSpansSeveral == lastTimeIndex[1] # 1

Group(first, last, merged) == [first |-> first, last |-> last, merged |-> merged]

\* lines 113-120, the empty log read at line 119
StartThrows ==
    /\ pc = "start"
    /\ ReadsLastOfEmpty
    /\ pc' = "threw"
    /\ UNCHANGED <<pureVars, history, text, options, newHistory, current, lastVersion,
                   lastTime, lastTimeIndex, lastTimeText, minTime, maxTime, i,
                   groups>>

\* lines 113-120
Start ==
    /\ pc = "start"
    /\ ~ReadsLastOfEmpty
    /\ minTime' = (IF options.minTime = None THEN Some(0) ELSE options.minTime)
    /\ maxTime' = (IF options.maxTime = None
                   THEN Some(history[Len(history)].timestamp)
                   ELSE options.maxTime)
    /\ i' = Len(history)
    /\ pc' = "loop"
    /\ UNCHANGED <<pureVars, history, text, options, newHistory, current, lastVersion,
                   lastTime, lastTimeIndex, lastTimeText, groups>>

\* lines 125-129
AboveWindow ==
    /\ pc = "loop" /\ i >= 1
    /\ Above(history[i])
    /\ ~applyDiffThrows(current, history[i])
    /\ newHistory' = unshift(newHistory, history[i])
    /\ groups' = unshift(groups, Group(i, i, FALSE))
    /\ current' = applyDiff(current, history[i])
    /\ i' = i - 1
    /\ UNCHANGED <<pureVars, history, text, options, lastVersion, lastTime,
                   lastTimeIndex, lastTimeText, minTime, maxTime, pc>>

\* lines 130-146, no group open
BelowWindow ==
    /\ pc = "loop" /\ i >= 1
    /\ Below(history[i])
    /\ ~GroupOpen
    /\ newHistory' = unshift(newHistory, history[i])
    /\ groups' = unshift(groups, Group(i, i, FALSE))
    /\ lastTimeIndex' = None
    /\ i' = i - 1
    /\ UNCHANGED <<pureVars, history, text, options, current, lastVersion, lastTime,
                   lastTimeText, minTime, maxTime, pc>>

\* lines 130-146, the open group flushed as a synthesized record
BelowWindowFlushMerged ==
    /\ pc = "loop" /\ i >= 1
    /\ Below(history[i])
    /\ GroupOpen /\ SpansSeveral(i)
    /\ ~groupDiffThrows
    /\ \E now \in Clock :
         newHistory' = unshift(unshift(newHistory, mergedEntry(now)), history[i])
    /\ groups' = unshift(unshift(groups, Group(i + 1, lastTimeIndex[1], TRUE)),
                         Group(i, i, FALSE))
    /\ lastTimeIndex' = None
    /\ i' = i - 1
    /\ UNCHANGED <<pureVars, history, text, options, current, lastVersion, lastTime,
                   lastTimeText, minTime, maxTime, pc>>

\* lines 130-146, the open group flushed as its one record
BelowWindowFlushSingle ==
    /\ pc = "loop" /\ i >= 1
    /\ Below(history[i])
    /\ GroupOpen /\ ~SpansSeveral(i)
    /\ newHistory' = unshift(unshift(newHistory, history[lastTimeIndex[1]]),
                             history[i])
    /\ groups' = unshift(unshift(groups,
                                 Group(i + 1, lastTimeIndex[1], FALSE)),
                         Group(i, i, FALSE))
    /\ lastTimeIndex' = None
    /\ i' = i - 1
    /\ UNCHANGED <<pureVars, history, text, options, current, lastVersion, lastTime,
                   lastTimeText, minTime, maxTime, pc>>

\* line 136: diffScriptText returned undefined
BelowWindowFlushThrows ==
    /\ pc = "loop" /\ i >= 1
    /\ Below(history[i])
    /\ GroupOpen /\ SpansSeveral(i)
    /\ groupDiffThrows
    /\ pc' = "threw"
    /\ UNCHANGED <<pureVars, history, text, options, newHistory, current, lastVersion,
                   lastTime, lastTimeIndex, lastTimeText, minTime, maxTime, i,
                   groups>>

\* lines 147-155
OpenGroup ==
    /\ pc = "loop" /\ i >= 1
    /\ InWindow(history[i])
    /\ ~GroupOpen
    /\ ~applyDiffThrows(current, history[i])
    /\ lastTimeText' = Some(current)
    /\ lastTime' = Some(history[i].timestamp)
    /\ lastVersion' = history[i].editorVersion
    /\ lastTimeIndex' = Some(i)
    /\ current' = applyDiff(current, history[i])
    /\ i' = i - 1
    /\ UNCHANGED <<pureVars, history, text, options, newHistory, minTime, maxTime, pc,
                   groups>>

\* lines 157-175, the group flushed as a synthesized record
BreakGroupMerged ==
    /\ pc = "loop" /\ i >= 1
    /\ InWindow(history[i])
    /\ GroupOpen /\ FarFromGroup(history[i])
    /\ SpansSeveral(i)
    /\ ~groupDiffThrows
    /\ ~applyDiffThrows(current, history[i])
    /\ \E now \in Clock : newHistory' = unshift(newHistory, mergedEntry(now))
    /\ groups' = unshift(groups, Group(i + 1, lastTimeIndex[1], TRUE))
    /\ lastTimeText' = Some(current)
    /\ current' = applyDiff(current, history[i])
    /\ lastTimeIndex' = Some(i)
    /\ lastTime' = Some(history[i].timestamp)
    /\ lastVersion' = history[i].editorVersion
    /\ i' = i - 1
    /\ UNCHANGED <<pureVars, history, text, options, minTime, maxTime, pc>>

\* lines 157-175, the group flushed as its one record
BreakGroupSingle ==
    /\ pc = "loop" /\ i >= 1
    /\ InWindow(history[i])
    /\ GroupOpen /\ FarFromGroup(history[i])
    /\ ~SpansSeveral(i)
    /\ ~applyDiffThrows(current, history[i])
    /\ newHistory' = unshift(newHistory, history[lastTimeIndex[1]])
    /\ groups' = unshift(groups, Group(i + 1, lastTimeIndex[1], FALSE))
    /\ lastTimeText' = Some(current)
    /\ current' = applyDiff(current, history[i])
    /\ lastTimeIndex' = Some(i)
    /\ lastTime' = Some(history[i].timestamp)
    /\ lastVersion' = history[i].editorVersion
    /\ i' = i - 1
    /\ UNCHANGED <<pureVars, history, text, options, minTime, maxTime, pc>>

\* line 162: diffScriptText returned undefined
BreakGroupThrows ==
    /\ pc = "loop" /\ i >= 1
    /\ InWindow(history[i])
    /\ GroupOpen /\ FarFromGroup(history[i])
    /\ SpansSeveral(i)
    /\ groupDiffThrows
    /\ pc' = "threw"
    /\ UNCHANGED <<pureVars, history, text, options, newHistory, current, lastVersion,
                   lastTime, lastTimeIndex, lastTimeText, minTime, maxTime, i,
                   groups>>

\* lines 176-178
Absorb ==
    /\ pc = "loop" /\ i >= 1
    /\ InWindow(history[i])
    /\ GroupOpen /\ ~FarFromGroup(history[i])
    /\ ~applyDiffThrows(current, history[i])
    /\ current' = applyDiff(current, history[i])
    /\ i' = i - 1
    /\ UNCHANGED <<pureVars, history, text, options, newHistory, lastVersion, lastTime,
                   lastTimeIndex, lastTimeText, minTime, maxTime, pc, groups>>

\* lines 127, 153, 170, 177: the injected patch throws inside applyDiff, on a
\* record that edits a file the rolling snapshot lacks
RollBackThrows ==
    /\ pc = "loop" /\ i >= 1
    /\ ~Below(history[i])
    /\ applyDiffThrows(current, history[i])
    /\ pc' = "threw"
    /\ UNCHANGED <<pureVars, history, text, options, newHistory, current, lastVersion,
                   lastTime, lastTimeIndex, lastTimeText, minTime, maxTime, i,
                   groups>>

\* lines 181-194, no group open
Return ==
    /\ pc = "loop" /\ i = 0
    /\ ~GroupOpen
    /\ pc' = "returned"
    /\ UNCHANGED <<pureVars, history, text, options, newHistory, current, lastVersion,
                   lastTime, lastTimeIndex, lastTimeText, minTime, maxTime, i,
                   groups>>

\* lines 181-194, the last group flushed as a synthesized record
ReturnFlushMerged ==
    /\ pc = "loop" /\ i = 0
    /\ GroupOpen /\ FinalSpansSeveral
    /\ ~groupDiffThrows
    /\ \E now \in Clock : newHistory' = unshift(newHistory, mergedEntry(now))
    /\ groups' = unshift(groups, Group(1, lastTimeIndex[1], TRUE))
    /\ pc' = "returned"
    /\ UNCHANGED <<pureVars, history, text, options, current, lastVersion, lastTime,
                   lastTimeIndex, lastTimeText, minTime, maxTime, i>>

\* lines 181-194, the last group is history[0] alone
ReturnFlushSingle ==
    /\ pc = "loop" /\ i = 0
    /\ GroupOpen /\ ~FinalSpansSeveral
    /\ newHistory' = unshift(newHistory, history[1])
    /\ groups' = unshift(groups, Group(1, lastTimeIndex[1], FALSE))
    /\ pc' = "returned"
    /\ UNCHANGED <<pureVars, history, text, options, current, lastVersion, lastTime,
                   lastTimeIndex, lastTimeText, minTime, maxTime, i>>

\* line 186: diffScriptText returned undefined
ReturnFlushThrows ==
    /\ pc = "loop" /\ i = 0
    /\ GroupOpen /\ FinalSpansSeveral
    /\ groupDiffThrows
    /\ pc' = "threw"
    /\ UNCHANGED <<pureVars, history, text, options, newHistory, current, lastVersion,
                   lastTime, lastTimeIndex, lastTimeText, minTime, maxTime, i,
                   groups>>

----------------------------------------------------------------------------
(* Inputs of collapseHistory *)

CollapseFiles == {FileA, FileTsx}

\* the change lists that fit a snapshot: each touches one tracked file
FittingChanges(txt) ==
    UNION {IF f \in DOMAIN txt
           THEN {<<Added(f, txt[f])>>} \cup {<<Edited(f, p)>> : p \in Patches}
           ELSE {<<Removed(f, v)>> : v \in Contents}
           : f \in {g \in CollapseFiles : IsTracked(g)}}

\* the logs of n change lists that lead backward from a snapshot, oldest first
RECURSIVE Chains(_, _)
Chains(txt, n) ==
    IF n = 0
    THEN {<<>>}
    ELSE UNION {{Append(c, ch) : c \in Chains(applyDiff(txt, [changes |-> ch]), n - 1)}
                : ch \in FittingChanges(txt)}

\* the current snapshots: the tracked file with any content or absent, the
\* untracked file present or absent
CollapseTexts ==
    {t \in ScriptTexts(CollapseFiles) :
        \A f \in DOMAIN t : ~IsTracked(f) => t[f] = 0}

SortedTimes(n) ==
    {t \in [1..n -> 0..MaxTs] : \A k \in 1..(n - 1) : t[k] <= t[k + 1]}

Version(k) == "v" \o ToString(k)

Intervals == -1..1
OptionalTimes == {None, Some(1)}
Policies == [interval : Intervals, minTime : OptionalTimes, maxTime : OptionalTimes]

Log(chain, times) ==
    [k \in 1..Len(chain) |->
        [timestamp |-> times[k], editorVersion |-> Version(k), changes |-> chain[k]]]

\* lines 105-113
CollapseLocals ==
    /\ newHistory = <<>>
    /\ groups = <<>>
    /\ current = text
    /\ lastVersion = TargetVersion
    /\ lastTime = None
    /\ lastTimeIndex = None
    /\ lastTimeText = None
    /\ minTime = options.minTime
    /\ maxTime = options.maxTime
    /\ i = Len(history)
    /\ pc = "start"

\* the inputs: a sorted log that fits the current snapshot, and a policy
CollapseInit ==
    /\ text \in CollapseTexts
    /\ \E n \in 0..MaxLen :
         \E chain \in Chains(text, n), times \in SortedTimes(n) :
            history = Log(chain, times)
    /\ options \in Policies
    /\ CollapseLocals

PureIdle ==
    /\ oldVersion = <<>> /\ newVersion = <<>> /\ entry = None /\ result = None
    /\ patchOnMissing = None /\ dpc = "idle"
    /\ mem = NoMem
    /\ calls = <<>>

Init == CollapseInit /\ PureIdle

Next ==
    \/ StartThrows
    \/ Start
    \/ AboveWindow
    \/ BelowWindow
    \/ BelowWindowFlushMerged
    \/ BelowWindowFlushSingle
    \/ BelowWindowFlushThrows
    \/ OpenGroup
    \/ BreakGroupMerged
    \/ BreakGroupSingle
    \/ BreakGroupThrows
    \/ Absorb
    \/ Return
    \/ ReturnFlushMerged
    \/ ReturnFlushSingle
    \/ ReturnFlushThrows

Spec == Init /\ [][Next]_vars

----------------------------------------------------------------------------
(* collapseHistory on logs that are not sorted by timestamp *)

UnsortedTimes(n) == [1..n -> 0..MaxTs] \ SortedTimes(n)

\* maxTime is left to its default, the timestamp of the last record, which in
\* an unsorted log is not the greatest
UnsortedPolicies == [interval : 0..1, minTime : OptionalTimes, maxTime : {None}]

UnsortedInit ==
    /\ text \in ScriptTexts({FileA})
    /\ \E n \in 0..MaxLen :
         \E chain \in Chains(text, n), times \in UnsortedTimes(n) :
            history = Log(chain, times)
    /\ options \in UnsortedPolicies
    /\ CollapseLocals
    /\ oldVersion = <<>> /\ newVersion = <<>> /\ entry = None /\ result = None
    /\ patchOnMissing \in {None, Some(0)}
    /\ dpc = "idle"
    /\ mem = NoMem
    /\ calls = <<>>

UnsortedNext ==
    \/ Start
    \/ AboveWindow
    \/ BelowWindow
    \/ BelowWindowFlushMerged
    \/ BelowWindowFlushSingle
    \/ BelowWindowFlushThrows
    \/ OpenGroup
    \/ BreakGroupMerged
    \/ BreakGroupSingle
    \/ BreakGroupThrows
    \/ Absorb
    \/ RollBackThrows
    \/ Return
    \/ ReturnFlushMerged
    \/ ReturnFlushSingle
    \/ ReturnFlushThrows

UnsortedSpec == UnsortedInit /\ [][UnsortedNext]_vars

----------------------------------------------------------------------------
(* diffScriptText followed by applyDiff: a record is made from two snapshots *)
(* and rolled back from the newer one                                        *)

CollapseIdle ==
    /\ history = <<>> /\ text = <<>>
    /\ options = [interval |-> 0, minTime |-> None, maxTime |-> None]
    /\ newHistory = <<>> /\ groups = <<>> /\ current = <<>>
    /\ lastVersion = TargetVersion
    /\ lastTime = None /\ lastTimeIndex = None /\ lastTimeText = None
    /\ minTime = None /\ maxTime = None /\ i = 0 /\ pc = "idle"

\* lines 197-237
DiffScriptText ==
    /\ dpc = "idle"
    /\ \E now \in Clock : entry' = diffScriptText(oldVersion, newVersion, now)
    /\ dpc' = (IF entry' = None THEN "nochange" ELSE "diffed")
    /\ UNCHANGED <<collapseVars, oldVersion, newVersion, result, patchOnMissing, mem, calls>>

\* lines 239-254, on the record diffScriptText returned
ApplyDiffBack ==
    /\ dpc = "diffed"
    /\ ~applyDiffThrows(newVersion, entry[1])
    /\ result' = Some(applyDiff(newVersion, entry[1]))
    /\ dpc' = "reverted"
    /\ UNCHANGED <<collapseVars, oldVersion, newVersion, entry, patchOnMissing, mem, calls>>

DiffInit ==
    /\ CollapseIdle
    /\ oldVersion \in ScriptTexts(Files)
    /\ newVersion \in ScriptTexts(Files)
    /\ entry = None /\ result = None
    /\ patchOnMissing = None
    /\ dpc = "idle"
    /\ mem = NoMem
    /\ calls = <<>>

DiffNext ==
    \/ DiffScriptText
    \/ ApplyDiffBack

DiffSpec == DiffInit /\ [][DiffNext]_vars

----------------------------------------------------------------------------
(* applyDiff on any snapshot and any record *)

AnyChanges ==
    {Added(f, v) : f \in Files, v \in Contents}
    \cup {Removed(f, v) : f \in Files, v \in Contents}
    \cup {Edited(f, p) : f \in Files, p \in Patches}

AnyChangeLists ==
    {<<c>> : c \in AnyChanges}
    \cup {<<c, d>> : c \in AnyChanges, d \in AnyChanges}

\* lines 239-254
ApplyDiff ==
    /\ dpc = "given"
    /\ ~applyDiffThrows(newVersion, entry[1])
    /\ result' = Some(applyDiff(newVersion, entry[1]))
    /\ dpc' = "applied"
    /\ UNCHANGED <<collapseVars, oldVersion, newVersion, entry, patchOnMissing, mem, calls>>

\* line 249: the injected patch throws on an undefined text
ApplyDiffThrows ==
    /\ dpc = "given"
    /\ applyDiffThrows(newVersion, entry[1])
    /\ dpc' = "threw"
    /\ UNCHANGED <<collapseVars, oldVersion, newVersion, entry, result,
                   patchOnMissing, mem, calls>>

ApplyInit ==
    /\ CollapseIdle
    /\ oldVersion = <<>>
    /\ newVersion \in ScriptTexts(Files)
    /\ \E ch \in AnyChangeLists, t \in Clock :
         entry = Some([timestamp |-> t, editorVersion |-> Version(1),
                       changes |-> ch])
    /\ result = None
    /\ patchOnMissing \in {None} \cup {Some(c) : c \in Contents}
    /\ dpc = "given"
    /\ mem = NoMem
    /\ calls = <<>>

ApplyNext ==
    \/ ApplyDiff
    \/ ApplyDiffThrows

ApplySpec == ApplyInit /\ [][ApplyNext]_vars

----------------------------------------------------------------------------
(* Properties of collapseHistory, checked under Spec *)

Returned == pc = "returned"
Done == pc \in {"returned", "threw"}

Sorted(log) == \A k \in 1..(Len(log) - 1) : log[k].timestamp <= log[k + 1].timestamp

\* the snapshot rolled backward through log[Len(log)], ..., log[k]
RECURSIVE RollBack(_, _, _)
RollBack(txt, log, k) ==
    IF k > Len(log)
    THEN txt
    ELSE applyDiff(RollBack(txt, log, k + 1), log[k])

\* the window the run uses, once the defaults of lines 115-120 are in place
OutOfWindow(e) == e.timestamp > maxTime[1] \/ e.timestamp < minTime[1]

\* C1: rolling the current snapshot backward through the returned log gives,
\* after each output record, the tracked files that rolling backward through
\* the input log gives after the oldest input record that output record
\* stands for; after the whole returned log, those after the whole input log.
C1_SnapshotEquivalence ==
    (Returned /\ Len(history) > 0) =>
        /\ Len(groups) = Len(newHistory)
        /\ \A j \in 1..Len(newHistory) :
              Tracked(RollBack(text, newHistory, j))
                  = Tracked(RollBack(text, history, groups[j].first))
        /\ Tracked(RollBack(text, newHistory, 1))
              = Tracked(RollBack(text, history, 1))

\* a returned log with a synthesized record of a group whose files changed
\* both before and inside the group
C1_Witness ==
    /\ Returned
    /\ Len(history) = MaxLen
    /\ \E j \in 1..Len(newHistory) :
          /\ groups[j].merged
          /\ j < Len(newHistory)
          /\ Tracked(RollBack(text, newHistory, j)) # Tracked(text)
          /\ Tracked(RollBack(text, newHistory, j + 1)) # Tracked(text)

\* C3: the records outside [minTime, maxTime] are in the returned log as they
\* were, in their order, and no synthesized record stands for any of them.
C3_WindowBoundaryPreservation ==
    (Returned /\ Len(history) > 0) =>
        /\ SelectSeq(newHistory, OutOfWindow) = SelectSeq(history, OutOfWindow)
        /\ \A j \in 1..Len(groups) :
              (groups[j].merged \/ groups[j].first < groups[j].last) =>
                  \A k \in groups[j].first..groups[j].last :
                      ~OutOfWindow(history[k])

\* a returned log with a record above the window kept beside a synthesized
\* record
C3_Witness ==
    /\ Returned
    /\ \E k \in 1..Len(history) : history[k].timestamp > maxTime[1]
    /\ \E j \in 1..Len(groups) : groups[j].merged
    /\ Len(newHistory) < Len(history)

\* C4: a log whose adjacent records are all more than interval apart is
\* returned as it is, record for record.
C4_SingletonFlush ==
    (/\ Done
     /\ Len(history) > 0
     /\ \A k \in 1..(Len(history) - 1) :
           history[k + 1].timestamp - history[k].timestamp > options.interval)
        => (Returned /\ newHistory = history)

\* such a log of several records, all inside the window, with an edit that
\* leaves the content as it was
C4_Witness ==
    /\ Returned
    /\ Len(history) = MaxLen
    /\ options.interval >= 0
    /\ \A k \in 1..(Len(history) - 1) :
          history[k + 1].timestamp - history[k].timestamp > options.interval
    /\ \A k \in 1..Len(history) : ~OutOfWindow(history[k])
    /\ \E k \in 1..Len(history) : history[k].changes[1] = Edited(FileA, 0)
    /\ newHistory = history

\* C5: two consecutive records of the returned log whose timestamps both lie
\* in [minTime, maxTime] are at least interval apart.
C5_BucketBound ==
    (Returned /\ Len(history) > 0) =>
        \A j \in 1..(Len(newHistory) - 1) :
            (~OutOfWindow(newHistory[j]) /\ ~OutOfWindow(newHistory[j + 1])) =>
                newHistory[j + 1].timestamp - newHistory[j].timestamp
                    >= options.interval

\* a returned log with two consecutive in-window records, one of them
\* synthesized, under a positive interval
C5_Witness ==
    /\ Returned
    /\ options.interval > 0
    /\ \E j \in 1..(Len(newHistory) - 1) :
          /\ ~OutOfWindow(newHistory[j]) /\ ~OutOfWindow(newHistory[j + 1])
          /\ groups[j].merged \/ groups[j + 1].merged

\* C6: the returned log of a log with non-decreasing timestamps has
\* non-decreasing timestamps.
C6_OutputSorted ==
    (Returned /\ Sorted(history)) => Sorted(newHistory)

\* a returned log in which a synthesized record follows a record below the
\* window
C6_Witness ==
    /\ Returned
    /\ \E j \in 2..Len(newHistory) :
          /\ groups[j].merged
          /\ newHistory[j - 1].timestamp < minTime[1]
          /\ newHistory[j - 1].timestamp < newHistory[j].timestamp

\* C7: a group of two or more records whose net change on the tracked files
\* is empty does not make collapseHistory fail.
C7_NoOpGroupCompletes ==
    (/\ pc \in {"loop", "returned", "threw"}
     /\ GroupOpen
     /\ lastTimeIndex[1] - i > 1
     /\ groupDiffThrows)
        => pc # "threw"

\* C9 as stated: an empty log is rejected, whatever the policy holds.
C9_EmptyLogRejected ==
    (Len(history) = 0 /\ Done) => (pc = "threw" /\ newHistory = <<>>)

\* C9 as amended: on an empty log collapseHistory fails when maxTime is not
\* given (it reads the last record) and returns an empty log when it is.
C9_EmptyLog ==
    (Len(history) = 0 /\ pc # "start") =>
        IF options.maxTime = None
        THEN pc = "threw"
        ELSE /\ pc \in {"loop", "returned"}
             /\ newHistory = <<>>
             /\ ~GroupOpen

\* an empty log returned under a policy that gives maxTime and no minTime
C9_Witness ==
    /\ Len(history) = 0
    /\ Returned
    /\ options.maxTime # None
    /\ options.minTime = None
    /\ newHistory = <<>>

\* C10 as stated: with interval <= 0 the call fails before any record is
\* visited and returns no log.
C10_NonPositiveIntervalRejected ==
    (options.interval <= 0 /\ Len(history) > 0 /\ Done) =>
        (pc = "threw" /\ i = Len(history) /\ newHistory = <<>>)

\* C10 as amended: interval <= 0 is no reason to fail: a run on a non-empty
\* log fails only after two records or more were visited (on a group whose
\* net change is empty), and with interval < 0 it visits every record and
\* returns the input log record for record.
C10_NonPositiveInterval ==
    (options.interval <= 0 /\ Len(history) > 0 /\ Done) =>
        /\ pc = "threw" => (Len(history) - i >= 2 /\ GroupOpen /\ groupDiffThrows)
        /\ options.interval < 0 => (Returned /\ i = 0 /\ newHistory = history)

\* a log of several in-window records, two of them at the same timestamp,
\* returned as it is under a negative interval
C10_Witness ==
    /\ Returned
    /\ options.interval < 0
    /\ Len(history) = MaxLen
    /\ \A k \in 1..Len(history) : ~OutOfWindow(history[k])
    /\ \E k \in 1..(Len(history) - 1) :
          history[k].timestamp = history[k + 1].timestamp
    /\ newHistory = history

----------------------------------------------------------------------------
(* Properties of diffScriptText and applyDiff *)

\* C2: rolling the newer snapshot back through the record diffScriptText
\* returned gives every tracked file the content it has in the older
\* snapshot, and holds no tracked file the older snapshot lacks.
C2_Reversibility ==
    dpc = "reverted" =>
        /\ \A f \in DOMAIN oldVersion :
              IsTracked(f) => (f \in DOMAIN result[1] /\ result[1][f] = oldVersion[f])
        /\ \A f \in DOMAIN result[1] :
              IsTracked(f) => f \in DOMAIN oldVersion

\* a record with an edited and a removed file rolled back, between snapshots
\* that also differ in an untracked file
C2_Witness ==
    /\ dpc = "reverted"
    /\ Len(entry[1].changes) = 2
    /\ \E k \in 1..2 : entry[1].changes[k].type = "edited"
    /\ \E k \in 1..2 : entry[1].changes[k].type = "removed"
    /\ FileTsx \in DOMAIN newVersion
    /\ FileTsx \notin DOMAIN oldVersion

\* C8: applyDiff on a record with an edited change whose file the snapshot
\* lacks fails and returns no snapshot.
C8_CorruptHistory ==
    (dpc \in {"applied", "threw"} /\ EditsMissing(newVersion, entry[1]))
        => (dpc = "threw" /\ result = None)

----------------------------------------------------------------------------
(* Properties of collapseHistory on unsorted logs, checked under UnsortedSpec *)

\* C11 as stated: a log that is not sorted by timestamp makes collapseHistory
\* fail; no log is returned for it.
C11_UnsortedRejected ==
    (Done /\ ~Sorted(history)) => (pc = "threw" /\ newHistory = <<>>)

\* C11 as amended: the order of the log is not checked. A run on an unsorted
\* log ends like any other: it fails only on a merged group without net
\* change or when the injected patch fails, and otherwise returns a log in
\* which the out-of-window records are the input's, as they were and in the
\* input's order.
C11_UnsortedNotDetected ==
    (Done /\ ~Sorted(history)) =>
        /\ pc = "threw" =>
              \/ /\ i >= 1 /\ ~Below(history[i])
                 /\ applyDiffThrows(current, history[i])
              \/ /\ GroupOpen /\ lastTimeIndex[1] - i > 1
                 /\ groupDiffThrows
        /\ Returned =>
              SelectSeq(newHistory, OutOfWindow) = SelectSeq(history, OutOfWindow)

\* an unsorted log returned with a synthesized record and an out-of-window
\* record, the output being unsorted as well
C11_Witness ==
    /\ Returned
    /\ ~Sorted(history)
    /\ ~Sorted(newHistory)
    /\ \E j \in 1..Len(groups) : groups[j].merged
    /\ \E k \in 1..Len(history) : OutOfWindow(history[k])

----------------------------------------------------------------------------
(* collapseHistory on the log of five records at 0, 100, 110, 300, 305 *)

ScenarioTimes == <<0, 100, 110, 300, 305>>
ScenarioPolicy == [interval |-> 50, minTime |-> Some(0), maxTime |-> Some(305)]

\* a.ts is edited by every record, its content changing each time
ScenarioChains ==
    [1..Len(ScenarioTimes) -> {<<Edited(FileA, p)>> : p \in Patches \ {0}}]

ScenarioInit ==
    /\ text \in {t \in CollapseTexts : FileA \in DOMAIN t}
    /\ \E chain \in ScenarioChains : history = Log(chain, ScenarioTimes)
    /\ options = ScenarioPolicy
    /\ CollapseLocals
    /\ PureIdle

\* the branches of collapseHistory this log takes
ScenarioNext ==
    \/ Start
    \/ OpenGroup
    \/ Absorb
    \/ BreakGroupMerged
    \/ BreakGroupThrows
    \/ ReturnFlushSingle

ScenarioSpec == ScenarioInit /\ [][ScenarioNext]_vars

\* records first..last of the log leave the tracked files as they were
NoNetChange(first, last) ==
    Tracked(RollBack(text, history, first)) =
        Tracked(IF last = Len(history) THEN text ELSE RollBack(text, history, last + 1))

\* C12 as stated: the call returns exactly 3 records, and the records at 300
\* and 305 are merged into one output record whose timestamp is 300.
C12_ScenarioMergedAt300 ==
    Done =>
        /\ Returned
        /\ Len(newHistory) = 3
        /\ groups[3] = Group(4, 5, TRUE)
        /\ newHistory[3].timestamp = 300

\* C12 as amended: when neither the pair at 100, 110 nor the pair at 300, 305
\* cancels out, the call returns exactly 3 records: the record at 0 as it was,
\* the pair 100, 110 merged at 110 and the pair 300, 305 merged at 305; when
\* one of the pairs cancels out, the call fails and returns nothing.
C12_ScenarioMergedAt305 ==
    Done =>
        IF NoNetChange(4, 5) \/ NoNetChange(2, 3)
        THEN pc = "threw"
        ELSE /\ Returned
             /\ Len(newHistory) = 3
             /\ groups = <<Group(1, 1, FALSE), Group(2, 3, TRUE), Group(4, 5, TRUE)>>
             /\ newHistory[1] = history[1]
             /\ newHistory[2].timestamp = 110
             /\ newHistory[2].editorVersion = history[3].editorVersion
             /\ newHistory[3].timestamp = 305
             /\ newHistory[3].editorVersion = history[5].editorVersion

\* the scenario returned: three records, the last one merged from 300 and 305
C12_Witness ==
    /\ Returned
    /\ history[4].timestamp = 300 /\ history[5].timestamp = 305
    /\ Len(newHistory) = 3
    /\ groups[3].merged /\ groups[3].first = 4 /\ groups[3].last = 5

----------------------------------------------------------------------------
(* Properties of diffScriptText alone, checked under DiffSpec *)

\* a and b have file f both or neither, and with the same content
AgreeOn(a, b, f) ==
    /\ f \in DOMAIN a <=> f \in DOMAIN b
    /\ (f \in DOMAIN a /\ f \in DOMAIN b) => a[f] = b[f]

\* C13: diffScriptText(old, new) returns none exactly when old and new agree
\* on the presence and the content of every tracked file; diffScriptText(X, X)
\* is none, and a record returned never has an empty change list.
C13_NoOpDiff ==
    dpc # "idle" =>
        /\ entry = None <=>
              \A f \in Files : IsTracked(f) => AgreeOn(oldVersion, newVersion, f)
        /\ oldVersion = newVersion => entry = None
        /\ entry # None => Len(entry[1].changes) > 0

\* none returned for two snapshots that hold a tracked file with the same
\* content, and none returned for a snapshot diffed with itself
C13_Witness ==
    /\ dpc = "nochange"
    /\ FileA \in DOMAIN oldVersion
    /\ PxtJson \notin DOMAIN oldVersion
    /\ oldVersion = newVersion

\* the names of Files that end in .ts, .jres, .py, .blocks or are pxt.json
TrackedFiles == {FileA, PxtJson}

\* snapshot v with its untracked files replaced by those of u
WithUntracked(v, u) ==
    [f \in (DOMAIN v \cap TrackedFiles) \cup DOMAIN u |->
        IF f \in DOMAIN u THEN u[f] ELSE v[f]]

\* C14: no change of the record diffScriptText returns names a file outside
\* the tracked set; snapshots that differ in untracked files only yield none;
\* and untracked files added, removed or edited in either snapshot leave the
\* changes as they are.
C14_UntrackedIgnored ==
    dpc # "idle" =>
        /\ entry # None =>
              \A k \in 1..Len(entry[1].changes) :
                  entry[1].changes[k].filename \in TrackedFiles
        /\ (\A f \in TrackedFiles : AgreeOn(oldVersion, newVersion, f)) => entry = None
        /\ \A u \in ScriptTexts(Files \ TrackedFiles), w \in ScriptTexts(Files \ TrackedFiles) :
              diffChanges(WithUntracked(oldVersion, u), WithUntracked(newVersion, w))
                  = (IF entry = None THEN <<>> ELSE entry[1].changes)

\* a record returned for snapshots whose untracked file differs as well
C14_Witness ==
    /\ dpc = "diffed"
    /\ FileTsx \in DOMAIN oldVersion /\ FileTsx \in DOMAIN newVersion
    /\ oldVersion[FileTsx] # newVersion[FileTsx]
    /\ Len(entry[1].changes) = 2

----------------------------------------------------------------------------
(* collapseHistory with its snapshots as objects: mem.heap holds the       *)
(* objects, mem.text, mem.current and mem.lastTimeText refer to them, and  *)
(* text, current and lastTimeText are what these references show.          *)

\* copyObject with a fault: the same object is handed back
aliasObject(heap, id) == [heap |-> heap, ref |-> id]

\* lines 107, 148, 168, 240: { ...o }
copyObject(heap, id) == [heap |-> Append(heap, heap[id]), ref |-> Len(heap) + 1]

\* lines 241-251: the changes written to object res, texts read from object arg
RECURSIVE heapApplyChanges(_, _, _, _, _)
heapApplyChanges(heap, res, arg, changes, k) ==
    IF k > Len(changes)
    THEN heap
    ELSE heapApplyChanges(
             [heap EXCEPT ![res] = applyChange(heap[res], heap[arg], changes[k])],
             res, arg, changes, k + 1)

\* "current = applyDiff(current, entry, patch)"; before and arg remember the
\* objects at the call and the object passed
heapApplyDiff(m, e) ==
    LET c == copyObject(m.heap, m.current)
    IN  [m EXCEPT !.heap = heapApplyChanges(c.heap, c.ref, m.current, e.changes, 1),
                  !.current = c.ref,
                  !.before = m.heap,
                  !.arg = m.current]

\* "lastTimeText = { ...current }"; held remembers the contents captured
heapCapture(m) ==
    LET c == copyObject(m.heap, m.current)
    IN  [m EXCEPT !.heap = c.heap, !.lastTimeText = c.ref,
                  !.held = Some(m.heap[m.current])]

\* what the three references show after the step
Observe ==
    /\ text' = mem'.heap[mem'.text]
    /\ current' = mem'.heap[mem'.current]
    /\ lastTimeText' = (IF mem'.lastTimeText = 0
                        THEN None
                        ELSE Some(mem'.heap[mem'.lastTimeText]))

\* lines 125-129
HeapAboveWindow ==
    /\ pc = "loop" /\ i >= 1
    /\ Above(history[i])
    /\ ~applyDiffThrows(current, history[i])
    /\ newHistory' = unshift(newHistory, history[i])
    /\ groups' = unshift(groups, Group(i, i, FALSE))
    /\ mem' = heapApplyDiff(mem, history[i])
    /\ Observe
    /\ i' = i - 1
    /\ UNCHANGED <<oldVersion, newVersion, entry, result, patchOnMissing, dpc, calls,
                   history, options, lastVersion, lastTime, lastTimeIndex,
                   minTime, maxTime, pc>>

\* lines 147-155
HeapOpenGroup ==
    /\ pc = "loop" /\ i >= 1
    /\ InWindow(history[i])
    /\ ~GroupOpen
    /\ ~applyDiffThrows(current, history[i])
    /\ lastTime' = Some(history[i].timestamp)
    /\ lastVersion' = history[i].editorVersion
    /\ lastTimeIndex' = Some(i)
    /\ mem' = heapApplyDiff(heapCapture(mem), history[i])
    /\ Observe
    /\ i' = i - 1
    /\ UNCHANGED <<oldVersion, newVersion, entry, result, patchOnMissing, dpc, calls,
                   history, options, newHistory, minTime, maxTime, pc, groups>>

\* lines 157-175, the group flushed as a synthesized record
HeapBreakGroupMerged ==
    /\ pc = "loop" /\ i >= 1
    /\ InWindow(history[i])
    /\ GroupOpen /\ FarFromGroup(history[i])
    /\ SpansSeveral(i)
    /\ ~groupDiffThrows
    /\ ~applyDiffThrows(current, history[i])
    /\ \E now \in Clock : newHistory' = unshift(newHistory, mergedEntry(now))
    /\ groups' = unshift(groups, Group(i + 1, lastTimeIndex[1], TRUE))
    /\ mem' = heapApplyDiff(heapCapture(mem), history[i])
    /\ Observe
    /\ lastTimeIndex' = Some(i)
    /\ lastTime' = Some(history[i].timestamp)
    /\ lastVersion' = history[i].editorVersion
    /\ i' = i - 1
    /\ UNCHANGED <<oldVersion, newVersion, entry, result, patchOnMissing, dpc, calls,
                   history, options, minTime, maxTime, pc>>

\* lines 157-175, the group flushed as its one record
HeapBreakGroupSingle ==
    /\ pc = "loop" /\ i >= 1
    /\ InWindow(history[i])
    /\ GroupOpen /\ FarFromGroup(history[i])
    /\ ~SpansSeveral(i)
    /\ ~applyDiffThrows(current, history[i])
    /\ newHistory' = unshift(newHistory, history[lastTimeIndex[1]])
    /\ groups' = unshift(groups, Group(i + 1, lastTimeIndex[1], FALSE))
    /\ mem' = heapApplyDiff(heapCapture(mem), history[i])
    /\ Observe
    /\ lastTimeIndex' = Some(i)
    /\ lastTime' = Some(history[i].timestamp)
    /\ lastVersion' = history[i].editorVersion
    /\ i' = i - 1
    /\ UNCHANGED <<oldVersion, newVersion, entry, result, patchOnMissing, dpc, calls,
                   history, options, minTime, maxTime, pc>>

\* lines 176-178
HeapAbsorb ==
    /\ pc = "loop" /\ i >= 1
    /\ InWindow(history[i])
    /\ GroupOpen /\ ~FarFromGroup(history[i])
    /\ ~applyDiffThrows(current, history[i])
    /\ mem' = heapApplyDiff(mem, history[i])
    /\ Observe
    /\ i' = i - 1
    /\ UNCHANGED <<oldVersion, newVersion, entry, result, patchOnMissing, dpc, calls,
                   history, options, newHistory, lastVersion, lastTime,
                   lastTimeIndex, minTime, maxTime, pc, groups>>

HeapPolicies == [interval : 0..1, minTime : OptionalTimes, maxTime : OptionalTimes]

\* lines 105-113: the caller's snapshot is object 1, "current = { ...text }"
\* its copy; text0 and history0 remember what the caller passed
HeapInit ==
    /\ text \in ScriptTexts({FileA})
    /\ \E n \in 0..MaxLen :
         \E chain \in Chains(text, n), times \in SortedTimes(n) :
            history = Log(chain, times)
    /\ options \in HeapPolicies
    /\ CollapseLocals
    /\ oldVersion = <<>> /\ newVersion = <<>> /\ entry = None /\ result = None
    /\ patchOnMissing = None /\ dpc = "idle"
    /\ LET c == copyObject(<<text>>, 1)
       IN  mem = [heap |-> c.heap, text |-> 1, current |-> c.ref, lastTimeText |-> 0,
                  before |-> <<>>, arg |-> 0, held |-> None,
                  text0 |-> text, history0 |-> history]
    /\ calls = <<>>

HeapNext ==
    \/ StartThrows
    \/ Start
    \/ HeapAboveWindow
    \/ BelowWindow
    \/ BelowWindowFlushMerged
    \/ BelowWindowFlushSingle
    \/ BelowWindowFlushThrows
    \/ HeapOpenGroup
    \/ HeapBreakGroupMerged
    \/ HeapBreakGroupSingle
    \/ BreakGroupThrows
    \/ HeapAbsorb
    \/ Return
    \/ ReturnFlushMerged
    \/ ReturnFlushSingle
    \/ ReturnFlushThrows

HeapSpec == HeapInit /\ [][HeapNext]_vars

\* C15: applyDiff returns a new object and writes to none that existed at the
\* call, whatever the changes of the record; the contents captured in
\* lastTimeText when a group opens stay as captured while the group is open;
\* and the caller's snapshot and log are, at the return and before it, what
\* the caller passed.
C15_InputsNotMutated ==
    /\ mem.arg # 0 =>
          /\ mem.current # mem.arg
          /\ mem.current > Len(mem.before)
          /\ \A id \in 1..Len(mem.before) : mem.heap[id] = mem.before[id]
    /\ GroupOpen => lastTimeText = mem.held
    /\ text = mem.text0
    /\ history = mem.history0
    /\ current = mem.heap[mem.current]

\* a run returned after rolling back through an added, a removed and an edited
\* change, with a group that absorbed a later roll-back step
C15_Witness ==
    /\ Returned
    /\ \A type \in {"added", "removed", "edited"} :
          \E k \in 1..Len(history) : history[k].changes[1].type = type
    /\ \E j \in 1..Len(groups) : groups[j].merged
    /\ Len(mem.heap) > Len(history) + 2

----------------------------------------------------------------------------
(* Properties of the groups of collapseHistory, checked under Spec *)

\* C16: a record synthesized for a group carries the timestamp and the
\* editorVersion of the newest record of the group, and stands in the output
\* after every record coming from older input records and before every
\* record coming from newer ones.
C16_MergedRecordStamp ==
    pc # "start" =>
        /\ Len(groups) = Len(newHistory)
        /\ \A j \in 1..Len(groups) :
              groups[j].merged =>
                  /\ groups[j].first < groups[j].last
                  /\ newHistory[j].timestamp = history[groups[j].last].timestamp
                  /\ newHistory[j].editorVersion = history[groups[j].last].editorVersion
                  /\ \A h \in 1..(j - 1) : groups[h].last < groups[j].first
                  /\ \A h \in (j + 1)..Len(groups) : groups[h].first > groups[j].last

\* a returned log with a record synthesized from records of different
\* timestamps, standing after a record that comes from an older one
C16_Witness ==
    /\ Returned
    /\ \E j \in 2..Len(groups) :
          /\ groups[j].merged
          /\ history[groups[j].first].timestamp < history[groups[j].last].timestamp
          /\ newHistory[j].timestamp = history[groups[j].last].timestamp

\* the snapshot rolled backward through those of log[Len(log)], ..., log[k]
\* that are not below the window
RECURSIVE RollBackApplied(_, _, _)
RollBackApplied(txt, log, k) ==
    IF k > Len(log)
    THEN txt
    ELSE IF log[k].timestamp <= maxTime[1] /\ log[k].timestamp < minTime[1]
         THEN RollBackApplied(txt, log, k + 1)
         ELSE applyDiff(RollBackApplied(txt, log, k + 1), log[k])

\* C17 as stated: after the loop has visited a record, above, inside or below
\* the window, current is the initial snapshot rolled backward through all
\* the records visited.
C17_RolledThroughAllVisited ==
    pc \in {"loop", "returned"} => current = RollBack(text, history, i + 1)

\* C17 as amended: after the loop has visited a record, current is the initial
\* snapshot rolled backward through the records visited that are above or
\* inside the window; a record below the window is not applied to it.
C17_RolledThroughApplied ==
    pc \in {"loop", "returned"} => current = RollBackApplied(text, history, i + 1)

\* a returned run that visited a record inside the window and one below it,
\* current being the snapshot before the former and not before the latter
C17_Witness ==
    /\ Returned
    /\ \E k \in 2..Len(history) :
          /\ history[k - 1].timestamp < minTime[1]
          /\ ~OutOfWindow(history[k])
          /\ current = RollBack(text, history, k)
    /\ current # RollBack(text, history, 1)

\* C18: on a sorted log, the records a synthesized record stands for are
\* consecutive records inside the window, each at most interval older than
\* the newest of them; and the records absorbed into the open group are
\* inside the window and at most interval older than the record that opened it.
C18_GroupWithinInterval ==
    (pc # "start" /\ Sorted(history)) =>
        /\ \A j \in 1..Len(groups) :
              (groups[j].merged \/ groups[j].first < groups[j].last) =>
                  \A k \in groups[j].first..groups[j].last :
                      /\ ~OutOfWindow(history[k])
                      /\ history[groups[j].last].timestamp - history[k].timestamp
                             <= options.interval
        /\ (pc = "loop" /\ GroupOpen) =>
              /\ lastTime[1] = history[lastTimeIndex[1]].timestamp
              /\ \A k \in (i + 1)..(lastTimeIndex[1] - 1) :
                    /\ ~OutOfWindow(history[k])
                    /\ lastTime[1] - history[k].timestamp <= options.interval

\* a returned log in which a group was closed by a record inside the window
\* that is farther than interval from the group's newest record, though not
\* from its oldest
C18_Witness ==
    /\ Returned
    /\ options.interval > 0
    /\ \E j \in 2..Len(groups) :
          /\ groups[j].merged
          /\ ~OutOfWindow(history[groups[j].first - 1])
          /\ history[groups[j].first].timestamp - history[groups[j].first - 1].timestamp
                 <= options.interval
          /\ history[groups[j].last].timestamp - history[groups[j].first].timestamp
                 = options.interval

\* the snapshot after record k of the log
After(k) == IF k = Len(history) THEN text ELSE RollBack(text, history, k + 1)

\* C19: a group of exactly one record is in the output as that record itself,
\* wherever it was flushed, index 0 included; a group of two or more records
\* is in the output as a synthesized record, whose changes are the difference
\* of the snapshots around the group; and no flush of a group of one record
\* computes a difference.
C19_SingletonVerbatim ==
    (Done /\ Len(history) > 0) =>
        /\ Len(groups) = Len(newHistory)
        /\ \A j \in 1..Len(groups) :
              /\ groups[j].first = groups[j].last =>
                    (~groups[j].merged /\ newHistory[j] = history[groups[j].first])
              /\ groups[j].first < groups[j].last =>
                    /\ groups[j].merged
                    /\ newHistory[j].changes =
                          diffChanges(RollBack(text, history, groups[j].first),
                                      After(groups[j].last))
        /\ pc = "threw" => lastTimeIndex[1] - i > 1

\* a returned log whose first record is the group of the record at index 0
\* alone, flushed after the loop, followed by a synthesized record
C19_Witness ==
    /\ Returned
    /\ Len(groups) = 2
    /\ groups[1] = Group(1, 1, FALSE)
    /\ ~OutOfWindow(history[1])
    /\ groups[2] = Group(2, 3, TRUE)

----------------------------------------------------------------------------
(* collapseHistory called on the log it returned, with the same snapshot   *)
(* and the same options                                                    *)

\* the caller passes the returned log to collapseHistory again: lines 105-113
Rerun ==
    /\ pc = "returned"
    /\ calls = <<>>
    /\ calls' = <<[history |-> history, newHistory |-> newHistory]>>
    /\ history' = newHistory
    /\ newHistory' = <<>>
    /\ groups' = <<>>
    /\ current' = text
    /\ lastVersion' = TargetVersion
    /\ lastTime' = None
    /\ lastTimeIndex' = None
    /\ lastTimeText' = None
    /\ minTime' = options.minTime
    /\ maxTime' = options.maxTime
    /\ i' = Len(newHistory)
    /\ pc' = "start"
    /\ UNCHANGED <<text, options, oldVersion, newVersion, entry, result,
                   patchOnMissing, dpc, mem>>

TwiceInit ==
    /\ text \in ScriptTexts({FileA})
    /\ \E n \in 0..MaxLen :
         \E chain \in Chains(text, n), times \in SortedTimes(n) :
            history = Log(chain, times)
    /\ options \in Policies
    /\ CollapseLocals
    /\ PureIdle

TwiceNext ==
    \/ StartThrows
    \/ Start
    \/ AboveWindow
    \/ BelowWindow
    \/ BelowWindowFlushMerged
    \/ BelowWindowFlushSingle
    \/ BelowWindowFlushThrows
    \/ OpenGroup
    \/ BreakGroupMerged
    \/ BreakGroupSingle
    \/ BreakGroupThrows
    \/ Absorb
    \/ Return
    \/ ReturnFlushMerged
    \/ ReturnFlushSingle
    \/ ReturnFlushThrows
    \/ Rerun

TwiceSpec == TwiceInit /\ [][TwiceNext]_vars

\* C20: collapseHistory called on a log it returned, with the same snapshot
\* and the same options, returns that log again, record for record; and the
\* log it returns is never longer than the log it was given.
C20_Idempotent ==
    /\ Returned => Len(newHistory) <= Len(history)
    /\ (calls # <<>> /\ Done) =>
          /\ Returned
          /\ history = calls[1].newHistory
          /\ newHistory = calls[1].newHistory

\* the second call returned, under explicit window edges, on a log in which
\* the first call had merged some records and kept another
C20_Witness ==
    /\ Returned
    /\ calls # <<>>
    /\ Len(calls[1].newHistory) < Len(calls[1].history)
    /\ Len(calls[1].newHistory) > 1
    /\ options.minTime # None
    /\ options.maxTime # None
    /\ newHistory = calls[1].newHistory

====
